---- MODULE Spec2Model ----
(***************************************************************************)
(* Model of haiku.rag's chunk store (ChunkRepository): the chunks table,   *)
(* the chunk_embeddings vector table and the chunks_fts full-text table    *)
(* kept behind one sqlite connection, and the coroutines that write them.  *)
(* A coroutine runs without interruption up to its next                    *)
(* `await self.embedder.embed(...)`; that is the only point where another  *)
(* coroutine of the event loop can run.  Writes go to the connection's     *)
(* open transaction (the tables below); `committed` is what the last       *)
(* commit() made durable.  The repository never rolls back.                *)
(***************************************************************************)
EXTENDS Integers, Sequences, FiniteSets, TLC

\* ---------------------------------------------------------------- bounds
MaxId == 2          \* rows the model inserts (cursor.lastrowid never exceeds it)
MaxChunks == 2      \* longest chunker output handed to create_chunks_for_document
MaxFailures == 1    \* embedder calls that fail in one run

Tasks == {"t1", "t2"}        \* coroutines on the event loop
MainTask == "t1"             \* the only coroutine of the sequential specification
Docs == {1, 2}               \* document ids callers pass
DocumentRows == {1}          \* documents table: document 2 has no row (any more)
Contents == {"a", "b"}       \* chunk contents callers pass
Metadatas == {<<>>}          \* metadata callers pass to create and update: {}
Commits == {TRUE}             \* the `commit` argument callers pass: the default
EmbedOutcomes == {"ok", "error", "wrongdim"}

Ids == 1..MaxId
NoId == 0                    \* entity.id is None

VARIABLES
    connection,        \* store._connection is not None
    documents,         \* ids with a row in the documents table
    chunks,            \* chunks table: id -> [document_id, content, metadata]
    chunk_embeddings,  \* chunk_embeddings table: chunk_id -> embedding
    chunks_fts,        \* chunks_fts table: rowid -> content
    committed,         \* the three tables as of the last commit()
    lastrowid,         \* highest id the chunks table has handed out
    pc,                \* per coroutine: "idle" or the await it is suspended at
    call,              \* per coroutine: the operation it is running
    local,             \* per coroutine: loop position, row in flight, rows created
    last,              \* the operation that returned or raised in the last step
    failures,          \* embedder calls that have failed so far
    distance,          \* vector index: chunk_id -> distance to the query embedding
    fts_index,         \* text index: per query form, rejected or rowid -> -rank
    request,           \* the search made: operation and arguments
    response,          \* what that search returned or raised
    chunker            \* Chunker: its configuration and the chunk() call it runs

vars == <<connection, documents, chunks, chunk_embeddings, chunks_fts, committed,
          lastrowid, pc, call, local, last, failures,
          distance, fts_index, request, response, chunker>>

\* what the store operations never touch: the query side and the chunker
queryVars == <<distance, fts_index, request, response, chunker>>

\* ------------------------------------------------------------ helpers
Tables == [chunks |-> chunks, chunk_embeddings |-> chunk_embeddings,
           chunks_fts |-> chunks_fts]

EmptyTables == [chunks |-> <<>>, chunk_embeddings |-> <<>>, chunks_fts |-> <<>>]

SetTables(tb) ==
    /\ chunks' = tb.chunks
    /\ chunk_embeddings' = tb.chunk_embeddings
    /\ chunks_fts' = tb.chunks_fts

Without(f, S) == [x \in (DOMAIN f) \ S |-> f[x]]

Only(f, S) == [x \in (DOMAIN f) \cap S |-> f[x]]

\* the row, embedding and index entry the tables hold for the ids in S
Restrict(tb, S) ==
    [chunks |-> Only(tb.chunks, S), chunk_embeddings |-> Only(tb.chunk_embeddings, S),
     chunks_fts |-> Only(tb.chunks_fts, S)]

With(f, k, v) == [x \in (DOMAIN f) \cup {k} |-> IF x = k THEN v ELSE f[x]]

Rewrite(f, k, v) == [x \in DOMAIN f |-> IF x = k THEN v ELSE f[x]]

\* embedder.embed(text) on success: a vector determined by the text
Embed(text) == <<"vec", text>>

Row(d, c, m) == [document_id |-> d, content |-> c, metadata |-> m]

NoCall == [op |-> "none", id |-> NoId, document_id |-> NoId, content |-> "",
           metadata |-> <<>>, texts |-> <<>>, commit |-> TRUE]

\* idx, cur, created: the loop position, the row being created and the rows
\* created so far; embeds: embedder calls made; before, fresh: what the tables
\* held for the operation's target when it was called
NoLocal == [idx |-> 0, cur |-> NoId, created |-> <<>>, embeds |-> 0,
            before |-> EmptyTables, fresh |-> FALSE]

NoLast == [op |-> "none", id |-> NoId, document_id |-> NoId, texts |-> <<>>,
           commit |-> TRUE, status |-> "none", error |-> "", deleted |-> FALSE,
           cur |-> NoId, created |-> <<>>, embeds |-> 0, before |-> EmptyTables,
           fresh |-> FALSE]

\* what an operation leaves behind when it returns (status "ok") or raises
Completed(c, l, status, error, deleted) ==
    [op |-> c.op, id |-> c.id, document_id |-> c.document_id, texts |-> c.texts,
     commit |-> c.commit, status |-> status, error |-> error, deleted |-> deleted,
     cur |-> l.cur, created |-> l.created, embeds |-> l.embeds, before |-> l.before,
     fresh |-> l.fresh]

\* `if self.store._connection is None: raise ValueError(...)`
Unavailable(c) == Completed(c, NoLocal, "raised", "StoreUnavailable", FALSE)

\* the caller starts an operation on coroutine t
Ready(t) == pc[t] = "idle" /\ last = NoLast /\ UNCHANGED <<failures, queryVars>>

\* the embedder answers the coroutine suspended at `at`: it returns a vector of
\* the declared dimension ("ok") or the call raises
Resumed(t, at, outcome) ==
    /\ pc[t] = at
    /\ last = NoLast
    /\ IF outcome = "ok"
       THEN UNCHANGED failures
       ELSE failures < MaxFailures /\ failures' = failures + 1
    /\ UNCHANGED queryVars

\* the coroutine suspends at `await self.embedder.embed(...)`
Suspend(t, at, c, l) ==
    /\ pc' = [pc EXCEPT ![t] = at]
    /\ call' = [call EXCEPT ![t] = c]
    /\ local' = [local EXCEPT ![t] = l]
    /\ last' = NoLast

\* the coroutine's operation returns or raises
Finish(t, r) ==
    /\ pc' = [pc EXCEPT ![t] = "idle"]
    /\ call' = [call EXCEPT ![t] = NoCall]
    /\ local' = [local EXCEPT ![t] = NoLocal]
    /\ last' = r

\* an operation without an await: runs from call to return in one step
Atomic(r) ==
    /\ last' = r
    /\ UNCHANGED <<pc, call, local>>

\* no commit() at all: the transaction stays open
CommitNever(commit, tb) == committed

\* self.store._connection.commit() when `commit`, else the transaction stays open
Commit(commit, tb) == IF commit THEN tb ELSE committed

\* JSON_EXTRACT(c.metadata, '$.order'): NULL (sorted first) without the key
OrderKey(m) == IF m = <<>> THEN 0 - 1 ELSE m[1]

\* no query has been put to the text index
NoFtsIndex == [fts |-> [rejected |-> FALSE, rank |-> <<>>],
               simple |-> [rejected |-> FALSE, rank |-> <<>>]]

NoRequest == [op |-> "none", query |-> <<>>, limit |-> 0, k |-> 0]

\* result: the (chunk id, score) pairs returned; executed: the query forms sent
\* to the text index, in order; vector, fts: the chunk ids the vector query and
\* the text query produced, in the order the index returned them
NoResponse == [status |-> "none", error |-> "", result |-> <<>>, executed |-> <<>>,
               vector |-> <<>>, fts |-> <<>>]

\* a chunker that has not been called; at: "call" before chunk() runs, "loop"
\* at the head of its while loop, "returned" after it; windows: the token
\* windows [start_i, end_i) the loop has cut
NoChunker == [chunk_size |-> 0, chunk_overlap |-> 0, text |-> <<>>, at |-> "none",
              encoded_tokens |-> <<>>, i |-> 0, chunks |-> <<>>, windows |-> <<>>]

Init ==
    /\ connection \in BOOLEAN
    /\ documents = DocumentRows
    /\ chunks = <<>>
    /\ chunk_embeddings = <<>>
    /\ chunks_fts = <<>>
    /\ committed = EmptyTables
    /\ lastrowid = 0
    /\ pc = [t \in Tasks |-> "idle"]
    /\ call = [t \in Tasks |-> NoCall]
    /\ local = [t \in Tasks |-> NoLocal]
    /\ last = NoLast
    /\ failures = 0
    /\ distance = <<>>
    /\ fts_index = NoFtsIndex
    /\ request = NoRequest
    /\ response = NoResponse
    /\ chunker = NoChunker

\* ------------------------------------------------------------ create
\* INSERT INTO chunks ...; entity.id = cursor.lastrowid
InsertChunk(tb, d, c, m) ==
    [tb EXCEPT !.chunks = With(tb.chunks, lastrowid + 1, Row(d, c, m))]

\* INSERT INTO chunk_embeddings ...; INSERT INTO chunks_fts ...
InsertArtifacts(tb, id, content) ==
    [tb EXCEPT !.chunk_embeddings = With(tb.chunk_embeddings, id, Embed(content)),
               !.chunks_fts = With(tb.chunks_fts, id, content)]

Create(t, d, c, m, commit) ==
    /\ Ready(t)
    /\ LET cl == [NoCall EXCEPT !.op = "create", !.document_id = d, !.content = c,
                                !.metadata = m, !.commit = commit]
       IN  IF ~connection
           THEN /\ Atomic(Unavailable(cl))
                /\ UNCHANGED <<chunks, chunk_embeddings, chunks_fts, lastrowid>>
           ELSE /\ lastrowid < MaxId
                /\ SetTables(InsertChunk(Tables, d, c, m))
                /\ lastrowid' = lastrowid + 1
                /\ Suspend(t, "create_embed", cl,
                           [NoLocal EXCEPT !.cur = lastrowid + 1, !.embeds = 1])
    /\ UNCHANGED <<connection, documents, committed>>

CreateEmbedded(t, outcome) ==
    /\ Resumed(t, "create_embed", outcome)
    /\ IF outcome = "ok"
       THEN LET tb == InsertArtifacts(Tables, local[t].cur, call[t].content)
            IN  /\ SetTables(tb)
                /\ committed' = Commit(call[t].commit, tb)
                /\ Finish(t, Completed(call[t], local[t], "ok", "", FALSE))
       ELSE /\ Finish(t, Completed(call[t], local[t], "raised", "EmbeddingFailure", FALSE))
            /\ UNCHANGED <<chunks, chunk_embeddings, chunks_fts, committed>>
    /\ UNCHANGED <<connection, documents, lastrowid>>

\* ------------------------------------------------------------ update
\* UPDATE chunks SET ... WHERE id = :id
UpdateChunk(tb, id, d, c, m) ==
    IF id \in DOMAIN tb.chunks
    THEN [tb EXCEPT !.chunks = Rewrite(tb.chunks, id, Row(d, c, m))]
    ELSE tb

\* update that writes the embedding and the index entry whether or not they exist
UpdateArtifactsUpserting(tb, id, content) ==
    [tb EXCEPT !.chunk_embeddings = With(tb.chunk_embeddings, id, Embed(content)),
               !.chunks_fts = With(tb.chunks_fts, id, content)]

\* UPDATE chunk_embeddings ... WHERE chunk_id; UPDATE chunks_fts ... WHERE rowid
UpdateArtifacts(tb, id, content) ==
    [tb EXCEPT
       !.chunk_embeddings = IF id \in DOMAIN tb.chunk_embeddings
                            THEN Rewrite(tb.chunk_embeddings, id, Embed(content))
                            ELSE tb.chunk_embeddings,
       !.chunks_fts = IF id \in DOMAIN tb.chunks_fts
                      THEN Rewrite(tb.chunks_fts, id, content)
                      ELSE tb.chunks_fts]

Update(t, id, d, c, m) ==
    /\ Ready(t)
    /\ LET cl == [NoCall EXCEPT !.op = "update", !.id = id, !.document_id = d,
                                !.content = c, !.metadata = m]
           l == [NoLocal EXCEPT !.before = Restrict(Tables, {id})]
       IN  IF ~connection
           THEN /\ Atomic(Unavailable(cl))
                /\ UNCHANGED <<chunks, chunk_embeddings, chunks_fts>>
           ELSE IF id = NoId
           THEN /\ Atomic(Completed(cl, l, "raised", "IdRequired", FALSE))
                /\ UNCHANGED <<chunks, chunk_embeddings, chunks_fts>>
           ELSE /\ SetTables(UpdateChunk(Tables, id, d, c, m))
                /\ Suspend(t, "update_embed", cl, [l EXCEPT !.cur = id, !.embeds = 1])
    /\ UNCHANGED <<connection, documents, committed, lastrowid>>

UpdateEmbedded(t, outcome) ==
    /\ Resumed(t, "update_embed", outcome)
    /\ IF outcome = "ok"
       THEN LET tb == UpdateArtifacts(Tables, call[t].id, call[t].content)
            IN  /\ SetTables(tb)
                /\ committed' = Commit(TRUE, tb)
                /\ Finish(t, Completed(call[t], local[t], "ok", "", FALSE))
       ELSE /\ Finish(t, Completed(call[t], local[t], "raised", "EmbeddingFailure", FALSE))
            /\ UNCHANGED <<chunks, chunk_embeddings, chunks_fts, committed>>
    /\ UNCHANGED <<connection, documents, lastrowid>>

\* ------------------------------------------------------------ delete
\* delete that leaves the embedding behind
DeleteRowsKeepingEmbedding(tb, id) ==
    [chunks |-> Without(tb.chunks, {id}),
     chunk_embeddings |-> tb.chunk_embeddings,
     chunks_fts |-> Without(tb.chunks_fts, {id})]

\* DELETE FROM chunks_fts / chunk_embeddings / chunks WHERE id
DeleteRows(tb, id) ==
    [chunks |-> Without(tb.chunks, {id}),
     chunk_embeddings |-> Without(tb.chunk_embeddings, {id}),
     chunks_fts |-> Without(tb.chunks_fts, {id})]

\* `deleted = cursor.rowcount > 0`, the rowcount of DELETE FROM chunks
Deleted(tb, id) == id \in DOMAIN tb.chunks

Delete(t, id, commit) ==
    /\ Ready(t)
    /\ LET cl == [NoCall EXCEPT !.op = "delete", !.id = id, !.commit = commit]
       IN  IF ~connection
           THEN /\ Atomic(Unavailable(cl))
                /\ UNCHANGED <<chunks, chunk_embeddings, chunks_fts, committed>>
           ELSE LET tb == DeleteRows(Tables, id)
                IN  /\ SetTables(tb)
                    /\ committed' = Commit(commit, tb)
                    /\ Atomic(Completed(cl, NoLocal, "ok", "", Deleted(Tables, id)))
    /\ UNCHANGED <<connection, documents, lastrowid>>

DeleteAll(t, commit) ==
    /\ Ready(t)
    /\ LET cl == [NoCall EXCEPT !.op = "delete_all", !.commit = commit]
       IN  IF ~connection
           THEN /\ Atomic(Unavailable(cl))
                /\ UNCHANGED <<chunks, chunk_embeddings, chunks_fts, committed>>
           ELSE /\ SetTables(EmptyTables)
                /\ committed' = Commit(commit, EmptyTables)
                /\ Atomic(Completed(cl, NoLocal, "ok", "", DOMAIN chunks # {}))
    /\ UNCHANGED <<connection, documents, lastrowid>>

\* ------------------------------------------------------------ reads
\* the chunk rows whose document_id is d
ChunkIdsOf(tb, d) == {i \in DOMAIN tb.chunks : tb.chunks[i].document_id = d}

\* FROM chunks c JOIN documents d ON c.document_id = d.id WHERE c.document_id = :d
DocumentChunkIds(tb, d) ==
    {i \in DOMAIN tb.chunks : tb.chunks[i].document_id = d /\ d \in documents}

\* ORDER BY JSON_EXTRACT(c.metadata, '$.order'): every row order the query may
\* produce (rows with equal keys come in any order)
GetByDocumentId(tb, d) ==
    LET S == DocumentChunkIds(tb, d)
        n == Cardinality(S)
    IN  {s \in [1..n -> S] :
            /\ \A i, j \in 1..n : i # j => s[i] # s[j]
            /\ \A i, j \in 1..n :
                  i < j => OrderKey(tb.chunks[s[i]].metadata)
                             <= OrderKey(tb.chunks[s[j]].metadata)}

\* SELECT ... FROM chunks WHERE id = :id
GetById(tb, id) == IF id \in DOMAIN tb.chunks THEN {tb.chunks[id]} ELSE {}

\* chunk_embeddings JOIN chunks JOIN documents: the rows search_chunks can return
VectorCandidates(tb) ==
    {i \in DOMAIN tb.chunk_embeddings \cap DOMAIN tb.chunks :
        tb.chunks[i].document_id \in documents}

\* chunks_fts JOIN chunks JOIN documents: the rows search_chunks_fts can return
FtsCandidates(tb) ==
    {i \in DOMAIN tb.chunks_fts \cap DOMAIN tb.chunks :
        tb.chunks[i].document_id \in documents}

\* (vector_search UNION fts_search) JOIN documents: rows search_chunks_hybrid
\* can return
HybridCandidates(tb) == VectorCandidates(tb) \cup FtsCandidates(tb)

ReadOps == {"get_by_id", "list_all", "get_by_document_id", "search_chunks_fts"}

EmbeddingReadOps == {"search_chunks", "search_chunks_hybrid"}

\* get_by_id, list_all, get_by_document_id, search_chunks_fts: no await
Read(t, op) ==
    /\ Ready(t)
    /\ LET cl == [NoCall EXCEPT !.op = op]
       IN  IF ~connection
           THEN Atomic(Unavailable(cl))
           ELSE Atomic(Completed(cl, NoLocal, "ok", "", FALSE))
    /\ UNCHANGED <<connection, documents, chunks, chunk_embeddings, chunks_fts,
                   committed, lastrowid>>

\* search_chunks, search_chunks_hybrid: embed the query, then select
Search(t, op) ==
    /\ Ready(t)
    /\ LET cl == [NoCall EXCEPT !.op = op]
       IN  IF ~connection
           THEN Atomic(Unavailable(cl))
           ELSE Suspend(t, "search_embed", cl, [NoLocal EXCEPT !.embeds = 1])
    /\ UNCHANGED <<connection, documents, chunks, chunk_embeddings, chunks_fts,
                   committed, lastrowid>>

SearchEmbedded(t, outcome) ==
    /\ Resumed(t, "search_embed", outcome)
    /\ IF outcome = "ok"
       THEN Finish(t, Completed(call[t], local[t], "ok", "", FALSE))
       ELSE Finish(t, Completed(call[t], local[t], "raised", "EmbeddingFailure", FALSE))
    /\ UNCHANGED <<connection, documents, chunks, chunk_embeddings, chunks_fts,
                   committed, lastrowid>>

\* ------------------------------------------------ delete_by_document_id
RECURSIVE DeleteEach(_, _)
\* `for chunk in chunks: await self.delete(chunk.id, commit=False)`
DeleteEach(tb, S) ==
    IF S = {} THEN tb
    ELSE LET i == CHOOSE x \in S : TRUE
         IN  DeleteEach(DeleteRows(tb, i), S \ {i})

DeleteByDocumentId(t, d, commit) ==
    /\ Ready(t)
    /\ LET cl == [NoCall EXCEPT !.op = "delete_by_document_id", !.document_id = d,
                                !.commit = commit]
       IN  IF ~connection
           THEN /\ Atomic(Unavailable(cl))
                /\ UNCHANGED <<chunks, chunk_embeddings, chunks_fts, committed>>
           ELSE LET S == DocumentChunkIds(Tables, d)
                    tb == DeleteEach(Tables, S)
                    deleted_any == \E i \in S : Deleted(Tables, i)
                IN  /\ SetTables(tb)
                    /\ committed' = Commit(commit /\ deleted_any, tb)
                    /\ Atomic(Completed(cl, NoLocal, "ok", "", deleted_any))
    /\ UNCHANGED <<connection, documents, lastrowid>>

\* -------------------------------------------- create_chunks_for_document
\* chunker.chunk(content): any sequence of at most MaxChunks chunk texts
ChunkTexts == UNION {[1..n -> Contents] : n \in 0..MaxChunks}

\* every chunk of the batch gets order 0
BatchOrderZero(i) == 0

\* `for order, chunk_text in enumerate(chunk_texts)`: order of the i-th (1-based)
BatchOrder(i) == i - 1

\* the loop goes on to the next chunk_text after create returned
BatchContinues(idx, texts) == idx < Len(texts)

CreateChunksForDocument(t, d, texts, commit) ==
    /\ Ready(t)
    /\ LET cl == [NoCall EXCEPT !.op = "create_chunks_for_document",
                                !.document_id = d, !.texts = texts, !.commit = commit]
       IN  IF texts = <<>>
           THEN /\ Atomic(Completed(cl, NoLocal, "ok", "", FALSE))
                /\ UNCHANGED <<chunks, chunk_embeddings, chunks_fts, lastrowid>>
           ELSE IF ~connection
           THEN /\ Atomic(Unavailable(cl))
                /\ UNCHANGED <<chunks, chunk_embeddings, chunks_fts, lastrowid>>
           ELSE /\ lastrowid + Len(texts) <= MaxId
                /\ SetTables(InsertChunk(Tables, d, texts[1], <<BatchOrder(1)>>))
                /\ lastrowid' = lastrowid + 1
                /\ Suspend(t, "batch_embed", cl,
                           [NoLocal EXCEPT !.idx = 1, !.cur = lastrowid + 1,
                                           !.embeds = 1,
                                           !.fresh = ChunkIdsOf(Tables, d) = {}])
    /\ UNCHANGED <<connection, documents, committed>>

BatchEmbedded(t, outcome) ==
    /\ Resumed(t, "batch_embed", outcome)
    /\ LET cl == call[t]
           l == local[t]
           done == [l EXCEPT !.created = Append(l.created, l.cur)]
       IN  IF outcome = "ok"
           THEN LET tb == InsertArtifacts(Tables, l.cur, cl.texts[l.idx])
                IN  /\ committed' = Commit(cl.commit, tb)
                    /\ IF BatchContinues(l.idx, cl.texts)
                       THEN /\ SetTables(InsertChunk(tb, cl.document_id,
                                                     cl.texts[l.idx + 1],
                                                     <<BatchOrder(l.idx + 1)>>))
                            /\ lastrowid' = lastrowid + 1
                            /\ Suspend(t, "batch_embed", cl,
                                       [done EXCEPT !.idx = l.idx + 1,
                                                    !.cur = lastrowid + 1,
                                                    !.embeds = l.embeds + 1])
                       ELSE /\ SetTables(tb)
                            /\ Finish(t, Completed(cl, done, "ok", "", FALSE))
                            /\ UNCHANGED lastrowid
           ELSE /\ Finish(t, Completed(cl, l, "raised", "EmbeddingFailure", FALSE))
                /\ UNCHANGED <<chunks, chunk_embeddings, chunks_fts, committed,
                               lastrowid>>
    /\ UNCHANGED <<connection, documents>>

\* the caller has seen what the operation returned or raised
Return ==
    /\ last # NoLast
    /\ last' = NoLast
    /\ UNCHANGED <<connection, documents, chunks, chunk_embeddings, chunks_fts,
                   committed, lastrowid, pc, call, local, failures, queryVars>>

\* the entity a caller passes to update: the chunk as read, with new content, or
\* a chunk carrying an id that has no row
UpdateEntities(id) ==
    IF id \in DOMAIN chunks
    THEN {<<chunks[id].document_id, chunks[id].metadata>>}
    ELSE {<<1, <<>> >>}

\* ------------------------------------------------------- specifications
\* create, update, delete: the write operations on one chunk
WriteStep(t) ==
    \/ \E d \in Docs, c \in Contents, m \in Metadatas, commit \in Commits :
          Create(t, d, c, m, commit)
    \/ \E o \in EmbedOutcomes : CreateEmbedded(t, o)
    \/ \E id \in Ids \cup {NoId}, c \in Contents : \E e \in UpdateEntities(id) :
          Update(t, id, e[1], c, e[2])
    \/ \E o \in EmbedOutcomes : UpdateEmbedded(t, o)
    \/ \E id \in Ids, commit \in Commits : Delete(t, id, commit)

\* the operations on many chunks
BatchStep(t) ==
    \/ \E commit \in Commits : DeleteAll(t, commit)
    \/ \E d \in Docs, commit \in Commits : DeleteByDocumentId(t, d, commit)
    \/ \E d \in Docs, texts \in ChunkTexts, commit \in Commits :
          CreateChunksForDocument(t, d, texts, commit)
    \/ \E o \in EmbedOutcomes : BatchEmbedded(t, o)

ReadStep(t) ==
    \/ \E op \in ReadOps : Read(t, op)
    \/ \E op \in EmbeddingReadOps : Search(t, op)
    \/ \E o \in EmbedOutcomes : SearchEmbedded(t, o)

\* one caller that awaits each operation before it starts the next
Next == Return \/ WriteStep(MainTask) \/ BatchStep(MainTask) \/ ReadStep(MainTask)

Spec == Init /\ [][Next]_vars

\* callers that start write operations concurrently: the coroutines interleave
\* at their awaits
ConcurrentNext == Return \/ \E t \in Tasks : WriteStep(t)

ConcurrentSpec == Init /\ [][ConcurrentNext]_vars

\* ------------------------------------------------------- query processor
\* Text is a sequence of characters.  The characters of the model:
SpaceChars == {" ", "\n"}            \* \s
DigitChars == {"0", "7"}             \* \d
CjkChars == {"<gu>", "<dong>", "<de>"}   \* \u4e00-\u9fff: U+80A1, U+4E1C, U+7684
LetterChars == {"a", "n", "A", "N"}
SpecialChars == {"?"}                \* neither \w nor \s
Chars == SpaceChars \cup DigitChars \cup CjkChars \cup LetterChars \cup SpecialChars

\* self.chinese_stop_words, self.english_stop_words: those the model can spell
StopWords == {<<"<de>">>, <<"a">>, <<"a", "n">>}

\* self.important_terms: none can be spelt with the model's characters
ImportantTerms == {}

\* str.lower() of one character
LowerChar(ch) == CASE ch = "A" -> "a" [] ch = "N" -> "n" [] OTHER -> ch

\* str.lower()
Lower(s) == [i \in 1..Len(s) |-> LowerChar(s[i])]

\* str.isdigit()
IsDigit(s) == Len(s) > 0 /\ \A i \in 1..Len(s) : s[i] \in DigitChars

\* `k in c` for strings
Contains(c, k) ==
    \E i \in 0..(Len(c) - Len(k)) : SubSeq(c, i + 1, i + Len(k)) = k

RECURSIVE StripLeft(_)
StripLeft(s) ==
    IF s # <<>> /\ Head(s) \in SpaceChars THEN StripLeft(Tail(s)) ELSE s

RECURSIVE StripRight(_)
StripRight(s) ==
    IF s # <<>> /\ s[Len(s)] \in SpaceChars
    THEN StripRight(SubSeq(s, 1, Len(s) - 1))
    ELSE s

\* str.strip()
Strip(s) == StripRight(StripLeft(s))

RECURSIVE CollapseSpaces(_)
\* re.sub(r'\s+', ' ', s)
CollapseSpaces(s) ==
    IF s = <<>> THEN <<>>
    ELSE IF Head(s) \in SpaceChars THEN <<" ">> \o CollapseSpaces(StripLeft(s))
    ELSE <<Head(s)>> \o CollapseSpaces(Tail(s))

\* re.sub(r'[^\u4e00-\u9fff\w\s]', ' ', s)
ReplaceSpecial(s) ==
    [i \in 1..Len(s) |-> IF s[i] \in SpecialChars THEN " " ELSE s[i]]

clean_query(query) ==
    CollapseSpaces(Strip(ReplaceSpecial(CollapseSpaces(Strip(query)))))

RECURSIVE RunLength(_, _)
\* how many characters of class C the text starts with
RunLength(s, C) ==
    IF s # <<>> /\ Head(s) \in C THEN 1 + RunLength(Tail(s), C) ELSE 0

RECURSIVE Runs(_, _)
\* re.findall(r'[C]+', s): the maximal runs of characters of class C, in order
Runs(s, C) ==
    IF s = <<>> THEN <<>>
    ELSE IF Head(s) \in C
    THEN LET n == RunLength(s, C)
         IN  <<SubSeq(s, 1, n)>> \o Runs(SubSeq(s, n + 1, Len(s)), C)
    ELSE Runs(Tail(s), C)

RECURSIVE Unique(_, _)
\* the `seen` loop: drops every keyword already seen, keeps the first
Unique(keywords, seen) ==
    IF keywords = <<>> THEN <<>>
    ELSE IF Head(keywords) \in seen THEN Unique(Tail(keywords), seen)
    ELSE <<Head(keywords)>> \o Unique(Tail(keywords), seen \cup {Head(keywords)})

\* the `for word in words` loop: the words that become keywords
KeptWord(word) ==
    /\ ~(Lower(word) \in StopWords /\ Lower(word) \notin ImportantTerms)
    /\ ~(Len(word) < 2 /\ Lower(word) \notin ImportantTerms)

extract_keywords(q) ==
    LET query == clean_query(q)
        hasCjk == \E i \in 1..Len(query) : query[i] \in CjkChars
        numbers == Runs(query, DigitChars)
        chinese_words == SelectSeq(Runs(query, CjkChars), LAMBDA w : Len(w) >= 2)
        grouped == Runs(query, CjkChars)
        words == Runs(query, Chars \ SpaceChars)
        keywords == (IF hasCjk THEN numbers \o chinese_words \o grouped ELSE <<>>)
                    \o SelectSeq(words, KeptWord)
    IN  Unique(keywords, {})

\* ---------------------------------------------------------------- scores
\* A score is a fraction <<numerator, denominator>> in lowest terms,
\* denominator > 0; distances and boosts are counted in tenths.
MaxRows == 2        \* rows of the store a vector or text search runs against
MaxDistance == 2    \* largest distance the vector index reports, in tenths
MaxLimit == 2       \* largest `limit` a caller passes

Distances == 0..MaxDistance
Limits == 1..MaxLimit
DefaultK == 60      \* search_chunks_hybrid(..., k: int = 60)

Min(a, b) == IF a <= b THEN a ELSE b

RECURSIVE GCD(_, _)
GCD(a, b) == IF b = 0 THEN a ELSE GCD(b, a % b)

Frac(n, d) == LET g == GCD(n, d) IN IF g = 0 THEN <<0, 1>> ELSE <<n \div g, d \div g>>

Plus(a, b) == Frac(a[1] * b[2] + b[1] * a[2], a[2] * b[2])

Less(a, b) == a[1] * b[2] < b[1] * a[2]

\* s[:n]
Take(s, n) == SubSeq(s, 1, Min(n, Len(s)))

\* the smallest and the largest key among the rows in S (S is not empty)
MinKey(S, key) == CHOOSE m \in {key[i] : i \in S} : \A i \in S : m <= key[i]

MaxKey(S, key) == CHOOSE m \in {key[i] : i \in S} : \A i \in S : m >= key[i]

RECURSIVE Orders(_)
\* the rows in T in every order
Orders(T) ==
    IF T = {} THEN {<<>>}
    ELSE UNION {{<<i>> \o r : r \in Orders(T \ {i})} : i \in T}

RECURSIVE RankingsBetween(_, _, _, _)
\* the rows of S with keys lo..hi in ascending key order, rows with equal keys
\* in any order
RankingsBetween(S, key, lo, hi) ==
    IF lo = hi THEN Orders({i \in S : key[i] = lo})
    ELSE LET mid == (lo + hi) \div 2
         IN  {a \o b : a \in RankingsBetween(S, key, lo, mid),
                       b \in RankingsBetween(S, key, mid + 1, hi)}

\* ORDER BY key LIMIT n over the rows in S: every order the index may return,
\* rows with equal keys coming in any order
Rankings(S, key, n) ==
    IF S = {} THEN {<<>>}
    ELSE {Take(r, n) : r \in RankingsBetween(S, key, MinKey(S, key), MaxKey(S, key))}

\* JOIN chunks c ON c.id = ...: the rows that have a chunks row
JoinChunks(tb, ids) == SelectSeq(ids, LAMBDA i : i \in DOMAIN tb.chunks)

\* JOIN documents d ON c.document_id = d.id: the rows whose document has a row
JoinDocuments(tb, ids) ==
    SelectSeq(ids, LAMBDA i : tb.chunks[i].document_id \in documents)

RECURSIVE InsertByScore(_, _)
\* x goes behind every pair whose score is not lower than its own
InsertByScore(sorted, x) ==
    IF sorted = <<>> THEN <<x>>
    ELSE IF Less(Head(sorted)[2], x[2]) THEN <<x>> \o sorted
    ELSE <<Head(sorted)>> \o InsertByScore(Tail(sorted), x)

RECURSIVE SortedInto(_, _)
SortedInto(sorted, pairs) ==
    IF pairs = <<>> THEN sorted
    ELSE SortedInto(InsertByScore(sorted, Head(pairs)), Tail(pairs))

\* list.sort(key=lambda x: x[1], reverse=True): descending, stable
SortByScore(pairs) == SortedInto(<<>>, pairs)

\* --------------------------------------------------------- search_chunks
\* search_limit = min(limit * 10, 100)
VectorSearchLimit(limit) == Min(limit * 10, 100)

\* the boost one keyword adds for a content, in tenths
BoostOf(keyword, content) ==
    IF Contains(Lower(content), Lower(keyword))
    THEN 3 + (IF IsDigit(keyword) THEN 5 ELSE 0)
    ELSE IF Len(keyword) = 1 /\ keyword[1] \in CjkChars /\ Contains(content, keyword)
    THEN 2
    ELSE 0

RECURSIVE KeywordBoost(_, _)
\* keyword_boost of search_chunks, in tenths
KeywordBoost(keywords, content) ==
    IF keywords = <<>> THEN 0
    ELSE BoostOf(Head(keywords), content) + KeywordBoost(Tail(keywords), content)

\* relevance_score = 1.0 / (1.0 + distance), distance d in tenths
Relevance(d) == Frac(10, 10 + d)

\* the score that ignores the keywords
VectorScoreUnboosted(d, boost) == Relevance(d)

\* final_score = relevance_score + keyword_boost
VectorScore(d, boost) == Plus(Relevance(d), Frac(boost, 10))

\* the rows of the vector query: the k nearest embeddings, joined
VectorRows(tb, k) ==
    {JoinDocuments(tb, JoinChunks(tb, r)) :
        r \in Rankings(DOMAIN tb.chunk_embeddings, distance, k)}

\* filtered_results before the sort
VectorScored(tb, rows, query) ==
    [j \in 1..Len(rows) |->
        <<rows[j], VectorScore(distance[rows[j]],
                               KeywordBoost(extract_keywords(query),
                                            tb.chunks[rows[j]].content))>>]

\* no truncation
TruncateNone(pairs, limit) == pairs

\* results[:limit]
Truncate(pairs, limit) == Take(pairs, limit)

Raised(error) == [NoResponse EXCEPT !.status = "raised", !.error = error]

\* a search: nothing but the response changes
Answer(op) ==
    /\ request.op = op
    /\ response = NoResponse
    /\ UNCHANGED <<connection, documents, chunks, chunk_embeddings, chunks_fts,
                   committed, lastrowid, pc, call, local, last, failures,
                   distance, fts_index, request, chunker>>

SearchChunks(outcome) ==
    /\ Answer("search_chunks")
    /\ IF ~connection THEN response' = Raised("StoreUnavailable")
       ELSE IF outcome # "ok" THEN response' = Raised("EmbeddingFailure")
       ELSE \E rows \in VectorRows(Tables, VectorSearchLimit(request.limit)) :
               response' =
                   [NoResponse EXCEPT
                      !.status = "ok",
                      !.vector = rows,
                      !.result = Truncate(SortByScore(
                                     VectorScored(Tables, rows, request.query)),
                                     request.limit)]

\* the queries and contents of the searched store
Queries == {<<"0", "7">>, <<"<gu>", " ", "0", "7">>, <<"N", "a">>, <<"?">>}

SearchContents == {<<"0", "7">>, <<"<gu>", "n", "a">>, <<"<dong>">>}

\* a store of n complete chunks, everything committed, nobody writing
SearchStore(n, rows) ==
    /\ connection = TRUE
    /\ documents = DocumentRows
    /\ chunks = [i \in 1..n |-> Row(rows[i][1], rows[i][2], <<>>)]
    /\ chunk_embeddings = [i \in 1..n |-> Embed(rows[i][2])]
    /\ chunks_fts = [i \in 1..n |-> rows[i][2]]
    /\ committed = [chunks |-> [i \in 1..n |-> Row(rows[i][1], rows[i][2], <<>>)],
                    chunk_embeddings |-> [i \in 1..n |-> Embed(rows[i][2])],
                    chunks_fts |-> [i \in 1..n |-> rows[i][2]]]
    /\ lastrowid = n
    /\ pc = [t \in Tasks |-> "idle"]
    /\ call = [t \in Tasks |-> NoCall]
    /\ local = [t \in Tasks |-> NoLocal]
    /\ last = NoLast
    /\ failures = 0
    /\ response = NoResponse
    /\ chunker = NoChunker

VectorSearchInit ==
    /\ \E n \in 0..MaxRows : \E rows \in [1..n -> Docs \X SearchContents] :
          /\ SearchStore(n, rows)
          /\ distance \in [1..n -> Distances]
    /\ fts_index = NoFtsIndex
    /\ request \in [op : {"search_chunks"}, query : Queries, limit : Limits,
                    k : {DefaultK}]

\* --------------------------------------------------- search_chunks_hybrid
\* "k_vector": limit * 3
HybridVectorLimit(limit) == limit * 3

\* search_limit = min(limit * 5, 50) of search_chunks_fts
FtsSearchLimit(limit) == Min(limit * 5, 50)

\* WHERE chunks_fts MATCH :query ORDER BY rank, without a LIMIT: the rowids the
\* text index matches for the query form, best (lowest) rank first
FtsRankings(tb, form) ==
    LET S == DOMAIN fts_index[form].rank \cap DOMAIN tb.chunks_fts
    IN  Rankings(S, fts_index[form].rank, Cardinality(S))

\* the vector_search rows: the k_vector nearest embeddings that have a chunks
\* row; ROW_NUMBER() is a row's position
VectorSearchCte(tb, limit) ==
    {JoinChunks(tb, r) :
        r \in Rankings(DOMAIN tb.chunk_embeddings, distance, HybridVectorLimit(limit))}

\* the fts_search rows
FtsSearchCte(tb) == {JoinChunks(tb, r) : r \in FtsRankings(tb, "fts")}

\* ROW_NUMBER() of id in the rows, 0 when the LEFT JOIN finds none
RankIn(rows, id) ==
    IF \E j \in 1..Len(rows) : rows[j] = id
    THEN CHOOSE j \in 1..Len(rows) : rows[j] = id
    ELSE 0

\* COALESCE(1.0 / (:k + rank), 0)
RrfTerm(k, rank) == IF rank = 0 \/ k + rank = 0 THEN Frac(0, 1) ELSE Frac(1, k + rank)

\* the fused score with the text rank counted one place lower
RrfScoreSkewed(k, vector_rank, fts_rank) ==
    Plus(RrfTerm(k, vector_rank), RrfTerm(k + 1, fts_rank))

\* rrf_score
RrfScore(k, vector_rank, fts_rank) ==
    Plus(RrfTerm(k, vector_rank), RrfTerm(k, fts_rank))

\* all_chunks of the vector ranking alone
AllChunksVectorOnly(vrows, frows) == {vrows[j] : j \in 1..Len(vrows)}

\* all_chunks: vector_search UNION fts_search
AllChunks(vrows, frows) ==
    {vrows[j] : j \in 1..Len(vrows)} \cup {frows[j] : j \in 1..Len(frows)}

\* rrf_scores JOIN documents: the (id, rrf_score) rows
RrfRows(tb, vrows, frows, k) ==
    {<<id, RrfScore(k, RankIn(vrows, id), RankIn(frows, id))>> :
        id \in {i \in AllChunks(vrows, frows) : tb.chunks[i].document_id \in documents}}

\* how many pairs of P have a higher score than x
Outscored(P, x) == Cardinality({y \in P : Less(x[2], y[2])})

\* ORDER BY score DESC LIMIT n: every order the query may return, rows with
\* equal scores coming in any order
TopByScore(P, n) == Rankings(P, [x \in P |-> Outscored(P, x)], n)

SearchChunksHybrid(outcome) ==
    /\ Answer("search_chunks_hybrid")
    /\ IF ~connection THEN response' = Raised("StoreUnavailable")
       ELSE IF outcome # "ok" THEN response' = Raised("EmbeddingFailure")
       ELSE IF fts_index.fts.rejected
       THEN response' = [Raised("QuerySyntax") EXCEPT !.executed = <<"fts">>]
       ELSE \E vrows \in VectorSearchCte(Tables, request.limit) :
            \E frows \in FtsSearchCte(Tables) :
            \E result \in TopByScore(RrfRows(Tables, vrows, frows, request.k),
                                     request.limit) :
               response' = [NoResponse EXCEPT !.status = "ok",
                                              !.executed = <<"fts">>,
                                              !.vector = vrows,
                                              !.fts = frows,
                                              !.result = result]

\* the k a caller passes
Ks == {0, DefaultK}

\* limits around the one at which the vector ranking of search_chunks_hybrid
\* outgrows the rows search_chunks fetches: 33 * 3 < 100 < 34 * 3
WideLimits == {33, 34, 60}

\* rows of the small stores: one more than the vector ranking holds at limit 1
HybridRows == HybridVectorLimit(1) + 1

\* rows of the wide stores: one more than search_chunks ever fetches
WideRows == VectorSearchLimit(34) + 1

\* how many of the nearest rows the text index matches in the wide stores
WideMatches == {0, FtsSearchLimit(34) - 1, FtsSearchLimit(34)}

\* what the text index may answer for a query form over the rows 1..n
FtsAnswers(n) ==
    UNION {[S -> {0 - v : v \in 1..n}] : S \in SUBSET (1..n)}

\* small stores: every assignment of documents and text ranks; the rows are
\* numbered by increasing distance
HybridSmallInit ==
    /\ \E rows \in [1..HybridRows -> Docs \X {<<"n", "a">>}] :
          SearchStore(HybridRows, rows)
    /\ distance = [i \in 1..HybridRows |-> i]
    /\ \/ \E a \in FtsAnswers(HybridRows) :
             fts_index = [NoFtsIndex EXCEPT !.fts.rank = a]
       \/ \E b \in BOOLEAN :
             fts_index = [NoFtsIndex EXCEPT !.fts.rejected = TRUE,
                                            !.simple.rejected = b]
    /\ request \in [op : {"search_chunks_hybrid"}, query : {<<"n", "a">>},
                    limit : Limits, k : Ks]

\* wide stores: the text index matches the m nearest rows, nearest first, and
\* behind them the farthest row
HybridWideInit ==
    /\ SearchStore(WideRows, [i \in 1..WideRows |-> <<1, <<"n", "a">> >>])
    /\ distance = [i \in 1..WideRows |-> i]
    /\ \E m \in WideMatches :
          fts_index =
              [NoFtsIndex EXCEPT
                 !.fts.rank = [i \in (1..m) \cup {WideRows} |-> i - WideRows - 1]]
    /\ request \in [op : {"search_chunks_hybrid"}, query : {<<"n", "a">>},
                    limit : WideLimits, k : Ks]

HybridSearchInit == HybridSmallInit \/ HybridWideInit

\* ------------------------------------------------------ search_chunks_fts
\* the rows of one text query: chunks_fts JOIN chunks JOIN documents
\* WHERE chunks_fts MATCH :query ORDER BY rank LIMIT :limit
FtsRows(tb, form, search_limit) ==
    {Take(JoinDocuments(tb, JoinChunks(tb, r)), search_limit) :
        r \in FtsRankings(tb, form)}

RECURSIVE UniqueRows(_, _)
\* the seen_chunks loop
UniqueRows(results, seen) ==
    IF results = <<>> THEN <<>>
    ELSE IF Head(results) \in seen THEN UniqueRows(Tail(results), seen)
    ELSE <<Head(results)>> \o UniqueRows(Tail(results), seen \cup {Head(results)})

RECURSIVE FtsKeywordBoost(_, _)
\* keyword_boost of search_chunks_fts, in tenths
FtsKeywordBoost(keywords, content) ==
    IF keywords = <<>> THEN 0
    ELSE (IF Contains(Lower(content), Lower(Head(keywords))) THEN 2 ELSE 0)
         + FtsKeywordBoost(Tail(keywords), content)

\* scored_results before the sort: base_score = -rank, plus the boost
FtsScored(tb, rows, form, query) ==
    [j \in 1..Len(rows) |->
        <<rows[j], Plus(Frac(0 - fts_index[form].rank[rows[j]], 10),
                        Frac(FtsKeywordBoost(extract_keywords(query),
                                             tb.chunks[rows[j]].content), 10))>>]

\* what search_chunks_fts returns for the rows one query form produced
FtsAnswer(tb, rows, form, executed) ==
    [NoResponse EXCEPT
       !.status = "ok",
       !.executed = executed,
       !.fts = rows,
       !.result = Truncate(SortByScore(FtsScored(tb, UniqueRows(rows, {}), form,
                                                 request.query)),
                           request.limit)]

\* the keyword query is sent whatever the first query did
FallbackAlways(first_rejected) == TRUE

\* `except Exception:` the keyword query is sent when the first query raised
Fallback(first_rejected) == first_rejected

SearchChunksFts ==
    /\ Answer("search_chunks_fts")
    /\ IF ~connection THEN response' = Raised("StoreUnavailable")
       ELSE IF ~Fallback(fts_index.fts.rejected)
       THEN \E rows \in FtsRows(Tables, "fts", FtsSearchLimit(request.limit)) :
               response' = FtsAnswer(Tables, rows, "fts", <<"fts">>)
       ELSE IF extract_keywords(request.query) = <<>>
       THEN response' = FtsAnswer(Tables, <<>>, "fts", <<"fts">>)
       ELSE IF fts_index.simple.rejected
       THEN response' = [Raised("QuerySyntax") EXCEPT !.executed = <<"fts", "simple">>]
       ELSE \E rows \in FtsRows(Tables, "simple", FtsSearchLimit(request.limit)) :
               response' = FtsAnswer(Tables, rows, "simple", <<"fts", "simple">>)

\* the text index accepts the lexical form, or rejects it and accepts or
\* rejects the keyword form
FtsSearchInit ==
    /\ \E n \in 0..MaxRows : \E rows \in [1..n -> Docs \X SearchContents] :
          /\ SearchStore(n, rows)
          /\ \/ \E a \in FtsAnswers(n) :
                   fts_index = [NoFtsIndex EXCEPT !.fts.rank = a]
             \/ \E a \in FtsAnswers(n) :
                   fts_index = [NoFtsIndex EXCEPT !.fts.rejected = TRUE,
                                                  !.simple.rank = a]
             \/ fts_index = [NoFtsIndex EXCEPT !.fts.rejected = TRUE,
                                               !.simple.rejected = TRUE]
    /\ distance = <<>>
    /\ request \in [op : {"search_chunks_fts"}, query : Queries, limit : Limits,
                    k : {DefaultK}]

\* ------------------------------------------------ the search specification
\* one search against a store at rest: the store, what the two indexes answer
\* for the query, and the call are drawn at the start
SearchInit == VectorSearchInit \/ FtsSearchInit \/ HybridSearchInit

SearchNext ==
    \/ \E o \in EmbedOutcomes : SearchChunks(o)
    \/ SearchChunksFts
    \/ \E o \in EmbedOutcomes : SearchChunksHybrid(o)

SearchSpec == SearchInit /\ [][SearchNext]_vars

\* --------------------------------------------------------------- chunker
\* the characters of the chunked texts: a letter, a space, an English and a
\* Chinese sentence ending (U+3002), a comma; "\n" is what preprocessing adds
ChineseEndings == {"<juhao>"}        \* one of the four of [U+3002 U+FF01 U+FF1F U+FF1B]
EnglishEndings == {"."}              \* one of . ! ? ;
Commas == {","}                      \* one of U+FF0C and ,
ChunkerChars == {"a", " "} \cup EnglishEndings \cup ChineseEndings \cup Commas

MaxTextLen == 4      \* longest text drawn over all of ChunkerChars
MaxChunkSize == 3    \* largest chunk_size (and chunk_overlap) tried on those

Max(a, b) == IF a >= b THEN a ELSE b

RECURSIVE MarkChinese(_)
\* re.sub(r'([<Chinese ending>])', r'\1\n', text)
MarkChinese(s) ==
    IF s = <<>> THEN <<>>
    ELSE IF Head(s) \in ChineseEndings THEN <<Head(s), "\n">> \o MarkChinese(Tail(s))
    ELSE <<Head(s)>> \o MarkChinese(Tail(s))

RECURSIVE MarkEnglish(_)
\* re.sub(r'([.!?;])\s+', r'\1\n', text)
MarkEnglish(s) ==
    IF s = <<>> THEN <<>>
    ELSE IF Head(s) \in EnglishEndings /\ Len(s) >= 2 /\ s[2] \in SpaceChars
    THEN <<Head(s), "\n">> \o MarkEnglish(StripLeft(Tail(s)))
    ELSE <<Head(s)>> \o MarkEnglish(Tail(s))

\* the last "\n" of the whitespace run s starts with, 0 when the run has one "\n"
LastNewline(s) ==
    LET ends == {j \in 2..RunLength(s, SpaceChars) : s[j] = "\n"}
    IN  IF ends = {} THEN 0 ELSE CHOOSE j \in ends : \A l \in ends : l <= j

RECURSIVE ParagraphBreaks(_)
\* re.sub(r'\n\s*\n', '\n\n', text)
ParagraphBreaks(s) ==
    IF s = <<>> THEN <<>>
    ELSE IF Head(s) = "\n" /\ LastNewline(s) > 0
    THEN <<"\n", "\n">> \o ParagraphBreaks(SubSeq(s, LastNewline(s) + 1, Len(s)))
    ELSE <<Head(s)>> \o ParagraphBreaks(Tail(s))

\* the one element of a one-element set
TheOne(S) == CHOOSE x \in S : TRUE

\* each substitution is applied to the value the one before it produced
preprocess_text(text) ==
    TheOne({Strip(paragraphs) :
            paragraphs \in {ParagraphBreaks(english) :
              english \in {MarkEnglish(chinese) :
                chinese \in {MarkChinese(spaced) :
                  spaced \in {CollapseSpaces(text)}}}}})

\* the encoder's vocabulary beyond single characters: the character pairs that
\* are one token
Merges == {<<"a", "a">>, <<" ", "a">>}

TokenLength(s) == IF Len(s) >= 2 /\ <<s[1], s[2]>> \in Merges THEN 2 ELSE 1

RECURSIVE Encode(_)
\* encoder.encode(text): tokens are written as the characters they stand for
Encode(s) ==
    IF s = <<>> THEN <<>>
    ELSE TheOne({<<SubSeq(s, 1, TokenLength(s))>> \o Encode(rest) :
                   rest \in {SubSeq(s, TokenLength(s) + 1, Len(s))}})

RECURSIVE Decode(_)
\* encoder.decode(tokens)
Decode(tokens) == IF tokens = <<>> THEN <<>> ELSE Head(tokens) \o Decode(Tail(tokens))

\* score of the character at 0-based index i of text as a place to split after
BoundaryScore(text, i) ==
    IF i < Len(text) /\ text[i + 1] \in ChineseEndings THEN 10
    ELSE IF i < Len(text) - 1 /\ text[i + 1] \in EnglishEndings /\ text[i + 2] = " " THEN 10
    ELSE IF i < Len(text) - 1 /\ text[i + 1] = "\n" /\ text[i + 2] = "\n" THEN 8
    ELSE IF i < Len(text) /\ text[i + 1] = "\n" THEN 5
    ELSE IF i < Len(text) /\ text[i + 1] \in Commas THEN 2
    ELSE 0

Abs(x) == IF x < 0 THEN 0 - x ELSE x

\* final_score = score * (1 - |i - target_pos| / search_window), times search_window
FinalScore(text, target_pos, search_window, i) ==
    BoundaryScore(text, i) * (search_window - Abs(i - target_pos))

RECURSIVE BestFrom(_, _, _, _, _, _, _)
\* the for loop over range(i, end_search), from the best found so far
BestFrom(text, target_pos, search_window, i, end_search, best_pos, best_score) ==
    IF i >= end_search THEN best_pos
    ELSE IF FinalScore(text, target_pos, search_window, i) > best_score
    THEN BestFrom(text, target_pos, search_window, i + 1, end_search,
                  IF BoundaryScore(text, i) > 0 THEN i + 1 ELSE i,
                  FinalScore(text, target_pos, search_window, i))
    ELSE BestFrom(text, target_pos, search_window, i + 1, end_search,
                  best_pos, best_score)

\* with search_window 0 the range is empty, so the division is never reached
find_best_split_point(text, target_pos) ==
    LET search_window == Min(100, Len(text) \div 4)
        start_search == Max(0, target_pos - search_window)
        end_search == Min(Len(text), target_pos + search_window)
    IN  BestFrom(text, target_pos, search_window, start_search, end_search,
                 target_pos, 0)

\* end_i = min(i + self.chunk_size, len(encoded_tokens))
WindowEndShort(i, chunk_size, n) == Min(i + chunk_size - 1, n)

WindowEndLong(i, chunk_size, n) == Min(i + chunk_size + 1, n)

WindowEnd(i, chunk_size, n) == Min(i + chunk_size, n)

\* the end of a window that is not the last, moved to a better split point
RefinedEnd(tokens, start_i, end_i) ==
    LET temp_text == Decode(SubSeq(tokens, start_i + 1, end_i))
        better_end == find_best_split_point(temp_text, Len(temp_text))
    IN  IF better_end < Len(temp_text)
        THEN start_i + Len(Encode(Take(temp_text, better_end)))
        ELSE end_i

\* i += max(1, end_i - start_i - self.chunk_overlap)
AdvanceUnguarded(start_i, end_i, chunk_overlap) == Max(0, end_i - start_i - chunk_overlap)

AdvanceNoOverlap(start_i, end_i, chunk_overlap) == Max(1, end_i - start_i)

AdvanceSkipping(start_i, end_i, chunk_overlap) == Max(1, end_i - start_i + 1)

Advance(start_i, end_i, chunk_overlap) == Max(1, end_i - start_i - chunk_overlap)

\* chunk(text) up to its while loop
ChunkCall ==
    /\ chunker.at = "call"
    /\ \E text \in {preprocess_text(chunker.text)} :
       \E encoded_tokens \in {Encode(text)} :
           chunker' =
             IF chunker.text = <<>>
             THEN [chunker EXCEPT !.at = "returned"]
             ELSE IF chunker.chunk_size > Len(encoded_tokens)
             THEN [chunker EXCEPT !.at = "returned", !.encoded_tokens = encoded_tokens,
                                  !.chunks = <<text>>]
             ELSE [chunker EXCEPT !.encoded_tokens = encoded_tokens,
                                  !.at = IF 0 < Len(encoded_tokens) THEN "loop"
                                         ELSE "returned"]
    /\ UNCHANGED <<connection, documents, chunks, chunk_embeddings, chunks_fts,
                   committed, lastrowid, pc, call, local, last, failures,
                   distance, fts_index, request, response>>

\* one iteration of the while loop of chunk
ChunkWindow ==
    /\ chunker.at = "loop"
    /\ \E tokens \in {chunker.encoded_tokens}, start_i \in {chunker.i} :
       \E first_end \in {WindowEnd(start_i, chunker.chunk_size, Len(tokens))} :
       \E end_i \in {IF first_end < Len(tokens)
                     THEN RefinedEnd(tokens, start_i, first_end)
                     ELSE first_end} :
       \E chunk_text \in {Strip(Decode(SubSeq(tokens, start_i + 1, end_i)))},
          next_i \in {start_i + Advance(start_i, end_i, chunker.chunk_overlap)} :
           chunker' =
             [chunker EXCEPT
                !.windows = Append(@, <<start_i, end_i>>),
                !.chunks = IF chunk_text # <<>> THEN Append(@, chunk_text) ELSE @,
                !.i = IF end_i >= Len(tokens) THEN start_i ELSE next_i,
                !.at = IF end_i >= Len(tokens) \/ next_i >= Len(tokens)
                       THEN "returned" ELSE "loop"]
    /\ UNCHANGED <<connection, documents, chunks, chunk_embeddings, chunks_fts,
                   committed, lastrowid, pc, call, local, last, failures,
                   distance, fts_index, request, response>>

ShortTexts == UNION {[1..n -> ChunkerChars] : n \in 0..MaxTextLen}

\* texts long enough for a window whose search_window reaches a boundary that
\* is not the window's last character: letters around one boundary character
LongTextLens == {13, 14}

LongTexts ==
    {[j \in 1..n |-> IF j = p THEN e ELSE "a"] :
        n \in LongTextLens, p \in 1..14,
        e \in EnglishEndings \cup ChineseEndings \cup Commas}

LongChunkSizes == {6, 7, 8}

\* none, little, and all but one or two units of such a window
LongOverlaps == {0, 1, 6}

\* a chunker with its configuration, about to chunk a text
ChunkerInit ==
    /\ connection = TRUE
    /\ documents = DocumentRows
    /\ chunks = <<>>
    /\ chunk_embeddings = <<>>
    /\ chunks_fts = <<>>
    /\ committed = EmptyTables
    /\ lastrowid = 0
    /\ pc = [t \in Tasks |-> "idle"]
    /\ call = [t \in Tasks |-> NoCall]
    /\ local = [t \in Tasks |-> NoLocal]
    /\ last = NoLast
    /\ failures = 0
    /\ distance = <<>>
    /\ fts_index = NoFtsIndex
    /\ request = NoRequest
    /\ response = NoResponse
    /\ \/ \E text \in ShortTexts, size \in 1..MaxChunkSize, overlap \in 0..MaxChunkSize :
             chunker = [NoChunker EXCEPT !.at = "call", !.text = text,
                                         !.chunk_size = size, !.chunk_overlap = overlap]
       \/ \E text \in LongTexts, size \in LongChunkSizes, overlap \in LongOverlaps :
             chunker = [NoChunker EXCEPT !.at = "call", !.text = text,
                                         !.chunk_size = size, !.chunk_overlap = overlap]

ChunkerNext == ChunkCall \/ ChunkWindow

ChunkerSpec == ChunkerInit /\ [][ChunkerNext]_vars

\* chunk is one coroutine that never awaits: once called it runs on
ChunkerLiveSpec == ChunkerSpec /\ WF_vars(ChunkerNext)

\* ------------------------------------------- pure functions, called alone
\* an empty store nobody is using
IdleStore ==
    /\ connection = TRUE
    /\ documents = DocumentRows
    /\ chunks = <<>>
    /\ chunk_embeddings = <<>>
    /\ chunks_fts = <<>>
    /\ committed = EmptyTables
    /\ lastrowid = 0
    /\ pc = [t \in Tasks |-> "idle"]
    /\ call = [t \in Tasks |-> NoCall]
    /\ local = [t \in Tasks |-> NoLocal]
    /\ last = NoLast
    /\ failures = 0
    /\ distance = <<>>
    /\ fts_index = NoFtsIndex
    /\ chunker = NoChunker

\* what a function returned
Returns(value) == [NoResponse EXCEPT !.status = "ok", !.result = value]

\* _find_best_split_point(text, target_pos), called on its own
FindBestSplitPoint ==
    /\ Answer("find_best_split_point")
    /\ response' = Returns(find_best_split_point(request.text, request.target_pos))

SplitChars == {"a", " ", "\n"} \cup EnglishEndings \cup ChineseEndings \cup Commas

\* texts of 3 characters (search_window 0) and of 12 (search_window 3), letters
\* but for two places; up to a search_window of 4 the float scores of the code
\* are equal exactly when the exact ones are
SplitTextLens == {3, 12}

SplitTexts ==
    {[j \in 1..n |-> IF j = p THEN e1 ELSE IF j = q THEN e2 ELSE "a"] :
        n \in SplitTextLens, p \in 1..12, q \in 1..12, e1 \in SplitChars, e2 \in SplitChars}

SplitInit ==
    /\ IdleStore
    /\ response = NoResponse
    /\ \E text \in SplitTexts : \E target_pos \in 0..Len(text) :
          request = [op |-> "find_best_split_point", text |-> text,
                     target_pos |-> target_pos]

SplitNext == FindBestSplitPoint

SplitSpec == SplitInit /\ [][SplitNext]_vars

\* extract_keywords(query), called on its own
ExtractKeywords ==
    /\ Answer("extract_keywords")
    /\ response' = Returns(extract_keywords(request.query))

MaxQueryLen == 4     \* longest query given to extract_keywords alone

QueryChars == Chars \ {"\n"}

QueryInit ==
    /\ IdleStore
    /\ response = NoResponse
    /\ \E n \in 0..MaxQueryLen : \E query \in [1..n -> QueryChars] :
          request = [op |-> "extract_keywords", query |-> query]

QueryNext == ExtractKeywords

QuerySpec == QueryInit /\ [][QueryNext]_vars

\* -------------------------------------------------------------- embedder
MaxDim == 3          \* largest declared dimension and largest vector returned

\* what the provider answers to the POST: an HTTP error status, a transport
\* failure, or a 2xx body that has a non-empty "data" list or not, and whose
\* first embedding has `length` components
Replies == [kind : {"ok", "HTTPStatusError", "RequestError"},
            data : BOOLEAN, length : 0..MaxDim]

\* what the body of the try block does: return the embedding or raise
EmbedBody(vector_dim, reply) ==
    IF reply.kind # "ok"
    THEN [raised |-> reply.kind, expected |-> 0, got |-> 0]
    ELSE IF ~reply.data
    THEN [raised |-> "ValueError", expected |-> 0, got |-> 0]
    ELSE IF reply.length # vector_dim
    THEN [raised |-> "ValueError", expected |-> vector_dim, got |-> reply.length]
    ELSE [raised |-> "", expected |-> 0, got |-> 0]

\* the except clauses, in their order: HTTPStatusError, RequestError, Exception
Handled(raised) ==
    CASE raised = "HTTPStatusError" -> "RuntimeError"
      [] raised = "RequestError" -> "RuntimeError"
      [] OTHER -> "RuntimeError"

\* Embedder.embed(text): cause is the exception the handler wrapped, expected
\* and got are the numbers in its message
EmbedderEmbed ==
    /\ Answer("embed")
    /\ LET body == EmbedBody(request.vector_dim, request.reply)
       IN  response' =
             IF body.raised = ""
             THEN [status |-> "ok", error |-> "", cause |-> "",
                   expected |-> 0, got |-> 0, result |-> request.reply.length]
             ELSE [status |-> "raised", error |-> Handled(body.raised),
                   cause |-> body.raised, expected |-> body.expected,
                   got |-> body.got, result |-> 0]

EmbedderInit ==
    /\ IdleStore
    /\ response = NoResponse
    /\ request \in [op : {"embed"}, text : Contents, vector_dim : 1..MaxDim,
                    reply : Replies]

EmbedderNext == EmbedderEmbed

EmbedderSpec == EmbedderInit /\ [][EmbedderNext]_vars

\* ================================================================ claims
CoExistent(tb) ==
    /\ DOMAIN tb.chunks = DOMAIN tb.chunk_embeddings
    /\ DOMAIN tb.chunk_embeddings = DOMAIN tb.chunks_fts

Returned(op) == last.op = op /\ last.status = "ok"

EmbeddingFailed(op) ==
    last.op = op /\ last.status = "raised" /\ last.error = "EmbeddingFailure"

\* C1: after every operation on the chunk store, also one that raised because
\* the embedder failed, the ids with a row, with an embedding and with a
\* full-text entry are the same set, in the open transaction and in what is
\* committed.
C1_CoExistence ==
    last.status # "none" => CoExistent(Tables) /\ CoExistent(committed)

\* C2: concurrent writers are mutually excluded: no two coroutines are suspended
\* inside a write operation at the same time, and no commit makes durable the
\* row of a create that is still waiting for its embedding.
C2_WritersExcluded ==
    /\ \A t, u \in Tasks :
          t # u => ~(/\ pc[t] \in {"create_embed", "update_embed"}
                     /\ pc[u] \in {"create_embed", "update_embed"})
    /\ \A t \in Tasks :
          pc[t] = "create_embed" => local[t].cur \notin DOMAIN committed.chunks

\* C3: an update whose embedder call failed leaves the chunk's row, embedding
\* and index entry as they were when it was called, and the index entry's
\* content equal to the row's content.
C3_UpdateAtomicOnFailure ==
    EmbeddingFailed("update") =>
        /\ Restrict(Tables, {last.id}) = last.before
        /\ last.id \in DOMAIN chunks \cap DOMAIN chunks_fts =>
               chunks_fts[last.id] = chunks[last.id].content

\* C4: an update of a chunk whose id is None or has no row raises, does not
\* call the embedder and leaves what the tables hold for that id unchanged
\* (stated for runs in which no embedder call failed).
C4_UpdateRequiresExistingId ==
    (last.op = "update" /\ last.id \notin DOMAIN last.before.chunks /\ failures = 0) =>
        /\ last.status = "raised"
        /\ last.embeds = 0
        /\ Restrict(Tables, {last.id}) = last.before

\* C5: delete(id) removes the index entry, the embedding and the row of id,
\* returns true exactly when a row with that id existed before the call and
\* leaves every other id as it was; after it get_by_id(id) finds nothing and
\* no search can return id.
C5_DeleteRemovesAll ==
    [][Returned("delete")' =>
         LET id == last'.id
             after == Tables'
         IN  /\ id \notin DOMAIN after.chunks
             /\ id \notin DOMAIN after.chunk_embeddings
             /\ id \notin DOMAIN after.chunks_fts
             /\ last'.deleted = (id \in DOMAIN chunks)
             /\ Restrict(after, Ids \ {id}) = Restrict(Tables, Ids \ {id})
             /\ GetById(after, id) = {}
             /\ id \notin VectorCandidates(after) \cup FtsCandidates(after)
                             \cup HybridCandidates(after)
      ]_vars

\* C5 witness: a delete returned true and another chunk is still stored
C5_Witness ==
    /\ Returned("delete")
    /\ last.deleted
    /\ DOMAIN chunks # {}
    /\ CoExistent(Tables)

\* C6: after delete_by_document_id(d) has returned, no chunk row, embedding or
\* index entry of a chunk of document d remains, whether or not the documents
\* table still has a row for d (stated for runs in which no embedder call failed).
C6_DeleteByDocumentRemovesAll ==
    (Returned("delete_by_document_id") /\ failures = 0) =>
        \A i \in DOMAIN chunks \cup DOMAIN chunk_embeddings \cup DOMAIN chunks_fts :
            i \in DOMAIN chunks /\ chunks[i].document_id # last.document_id

\* C7: without a connection every operation raises at once, without calling
\* the embedder; none returns a result.
C7_StoreUnavailable ==
    (~connection /\ last.status # "none") =>
        /\ last.status = "raised"
        /\ last.error = "StoreUnavailable"
        /\ last.embeds = 0

\* C8: create_chunks_for_document creates one chunk at a time in chunker
\* order: while chunk i waits for its embedding the chunks before it are
\* complete and no later one has a row; chunk i is stored with order i
\* (0-based); and for a document that had no chunks before, get_by_document_id
\* returns the contents in the chunker's order.
C8_BatchInOrder ==
    /\ \A t \in Tasks :
          pc[t] = "batch_embed" =>
              /\ Len(local[t].created) = local[t].idx - 1
              /\ local[t].embeds = local[t].idx
              /\ local[t].cur = lastrowid
              /\ local[t].cur \in DOMAIN chunks
              /\ local[t].cur \notin DOMAIN chunk_embeddings
              /\ \A k \in 1..Len(local[t].created) :
                    /\ local[t].created[k] \in DOMAIN chunk_embeddings
                    /\ local[t].created[k] \in DOMAIN chunks_fts
                    /\ local[t].created[k] < local[t].cur
    /\ Returned("create_chunks_for_document") =>
          /\ Len(last.created) = Len(last.texts)
          /\ \A k \in 1..Len(last.texts) :
                /\ last.created[k] \in DOMAIN chunks
                /\ chunks[last.created[k]] =
                       Row(last.document_id, last.texts[k], <<k - 1>>)
          /\ (last.fresh /\ last.document_id \in documents) =>
                \A s \in GetByDocumentId(Tables, last.document_id) :
                    [k \in 1..Len(s) |-> chunks[s[k]].content] = last.texts

\* C8 witness: a batch of two different chunk texts was stored for a document
\* that had no chunks
C8_Witness ==
    /\ Returned("create_chunks_for_document")
    /\ Len(last.texts) = 2
    /\ last.texts[1] # last.texts[2]
    /\ last.fresh
    /\ last.document_id \in documents

\* C9: no two stored chunks of one document carry the same order, and a chunk
\* created later for a document has a higher order than one created earlier.
C9_OrderMonotonic ==
    \A i, j \in DOMAIN chunks \cap DOMAIN chunk_embeddings \cap DOMAIN chunks_fts :
        (/\ i < j
         /\ chunks[i].document_id = chunks[j].document_id
         /\ chunks[i].metadata # <<>>
         /\ chunks[j].metadata # <<>>)
        => OrderKey(chunks[i].metadata) < OrderKey(chunks[j].metadata)

\* C10: when the embedder raises at chunk j of create_chunks_for_document
\* (default commit), the call raises, the chunks before j stay committed with
\* row, embedding and index entry, and no further chunk is created.
C10_NoBatchRollback ==
    [][\A t \in Tasks :
         (pc[t] = "batch_embed" /\ failures' # failures /\ call[t].commit) =>
             /\ EmbeddingFailed("create_chunks_for_document")'
             /\ pc'[t] = "idle"
             /\ last'.created = local[t].created
             /\ \A k \in 1..Len(local[t].created) :
                   LET id == local[t].created[k]
                       after == Tables'
                   IN  /\ id \in DOMAIN committed'.chunks
                       /\ committed'.chunks[id] =
                              Row(call[t].document_id, call[t].texts[k], <<k - 1>>)
                       /\ id \in DOMAIN committed'.chunk_embeddings
                       /\ committed'.chunk_embeddings[id] = Embed(call[t].texts[k])
                       /\ id \in DOMAIN committed'.chunks_fts
                       /\ committed'.chunks_fts[id] = call[t].texts[k]
                       /\ Restrict(after, {id}) = Restrict(committed', {id})
             /\ lastrowid' = lastrowid
             /\ chunks' = chunks
      ]_vars

\* C10 witness: the batch raised at its second chunk, after the first was created
C10_Witness ==
    /\ EmbeddingFailed("create_chunks_for_document")
    /\ last.commit
    /\ Len(last.created) = 1
    /\ Len(last.texts) = 2


\* ------------------------------------------------------- search claims
Answered(op) == request.op = op /\ response.status = "ok"

\* the ids of the returned pairs, in order
ResultIds == [j \in 1..Len(response.result) |-> response.result[j][1]]

\* the positions at which id is returned
PositionsOf(id) == {j \in 1..Len(response.result) : response.result[j][1] = id}

\* C11: every search that returns gives at most `limit` pairs, and their
\* scores never increase from one pair to the next.
C11_AtMostLimitDescending ==
    response.status = "ok" =>
        /\ Len(response.result) <= request.limit
        /\ \A j \in 1..(Len(response.result) - 1) :
              ~Less(response.result[j][2], response.result[j + 1][2])

\* C11 witness: a search that had more than `limit` rows to choose from
\* returned `limit` pairs, the second with a lower score than the first
C11_Witness ==
    /\ response.status = "ok"
    /\ request.limit = 2
    /\ Len(response.result) = 2
    /\ Less(response.result[2][2], response.result[1][2])
    /\ Cardinality({response.vector[j] : j \in 1..Len(response.vector)}
                   \cup {response.fts[j] : j \in 1..Len(response.fts)}) > 2

\* the ids of the internal vector ranking and of the internal text ranking
FusedIds ==
    {response.vector[j] : j \in 1..Len(response.vector)}
        \cup {response.fts[j] : j \in 1..Len(response.fts)}

\* 1/(k + rank), a missing rank (0) contributing 0
ClaimedTerm(k, rank) == IF rank = 0 THEN Frac(0, 1) ELSE Frac(1, k + rank)

\* the fused score C12 states for id
ClaimedRrf(id) ==
    Plus(ClaimedTerm(request.k, RankIn(response.vector, id)),
         ClaimedTerm(request.k, RankIn(response.fts, id)))

\* the internal vector ranking holds the limit*3 nearest embeddings; every
\* returned id is in one of the two rankings, is returned once and carries the
\* fused score
FusedFromRankings ==
    /\ Len(response.vector) = Min(request.limit * 3, Cardinality(DOMAIN chunk_embeddings))
    /\ \A j \in 1..Len(response.vector) :
          \A i \in DOMAIN chunk_embeddings :
              distance[i] < distance[response.vector[j]] =>
                  \E l \in 1..Len(response.vector) : response.vector[l] = i
    /\ \A j \in 1..Len(response.result) :
          /\ response.result[j][1] \in FusedIds
          /\ PositionsOf(response.result[j][1]) = {j}
          /\ response.result[j][2] = ClaimedRrf(response.result[j][1])

\* the result is the `limit` highest-scoring of the ids in S
HighestOf(S) ==
    /\ Len(response.result) = Min(request.limit, Cardinality(S))
    /\ \A u \in S :
          PositionsOf(u) = {} =>
              \A j \in 1..Len(response.result) :
                  ~Less(response.result[j][2], ClaimedRrf(u))

\* C12 as stated: search_chunks_hybrid scores exactly the union of its vector
\* ranking (the limit*3 nearest) and its text ranking, each id once with score
\* 1/(k+rank_vector) + 1/(k+rank_text), and returns the `limit` highest-scoring
\* ids of that union.
C12_HybridReturnsTopOfUnion ==
    Answered("search_chunks_hybrid") => FusedFromRankings /\ HighestOf(FusedIds)

\* C12 amended: ... and returns the `limit` highest-scoring ids of that union
\* whose document has a row in the documents table.
C12_HybridReturnsTopOfJoinedUnion ==
    Answered("search_chunks_hybrid") =>
        /\ FusedFromRankings
        /\ HighestOf({i \in FusedIds : chunks[i].document_id \in documents})

\* C12 witness: with limit 1 the hybrid search returned a chunk found by the
\* text ranking alone, ahead of the three nearest chunks
C12_Witness ==
    /\ Answered("search_chunks_hybrid")
    /\ request.limit = 1
    /\ Len(response.result) = 1
    /\ RankIn(response.vector, response.result[1][1]) = 0
    /\ RankIn(response.fts, response.result[1][1]) = 1
    /\ \A j \in 1..Len(response.vector) :
          chunks[response.vector[j]].document_id \in documents

\* C13: every chunk search_chunks_hybrid(query, limit) returns is among the
\* rows search_chunks(query, limit) fetches (the min(limit*10, 100) nearest) or
\* among the rows search_chunks_fts(query, limit) fetches (the min(limit*5, 50)
\* best matches).
C13_HybridWithinSearchPools ==
    Answered("search_chunks_hybrid") =>
        \A j \in 1..Len(response.result) :
            LET id == response.result[j][1]
            IN  \/ \E rows \in VectorRows(Tables, VectorSearchLimit(request.limit)) :
                      \E l \in 1..Len(rows) : rows[l] = id
                \/ \E rows \in FtsRows(Tables, "fts", FtsSearchLimit(request.limit)) :
                      \E l \in 1..Len(rows) : rows[l] = id

\* C14: two returned chunks whose vector rank and text rank are each other's
\* (A first and second, B second and first, or any other swapped pair, a missing
\* rank included) carry equal scores.
C14_RrfSymmetric ==
    Answered("search_chunks_hybrid") =>
        \A ja, jb \in 1..Len(response.result) :
            LET A == response.result[ja][1]
                B == response.result[jb][1]
            IN  (/\ RankIn(response.vector, A) = RankIn(response.fts, B)
                 /\ RankIn(response.fts, A) = RankIn(response.vector, B)) =>
                    response.result[ja][2] = response.result[jb][2]

\* C14 witness: A ranked first by vector and second by text, B second by
\* vector and first by text, both returned
C14_Witness ==
    /\ Answered("search_chunks_hybrid")
    /\ Len(response.result) = 2
    /\ RankIn(response.vector, response.result[1][1]) = 1
    /\ RankIn(response.fts, response.result[1][1]) = 2
    /\ RankIn(response.vector, response.result[2][1]) = 2
    /\ RankIn(response.fts, response.result[2][1]) = 1

C16_EverySearchFallsBack ==
    (/\ request.op \in {"search_chunks_fts", "search_chunks_hybrid"}
     /\ response.status # "none"
     /\ response.error \notin {"StoreUnavailable", "EmbeddingFailure"}
     /\ fts_index.fts.rejected
     /\ ~fts_index.simple.rejected) =>
        response.status = "ok"

RECURSIVE ClaimedBoost(_, _)
\* the boost as C17 states it, in tenths: 3 per keyword found ignoring case,
\* 5 more when that keyword is a digit string, 2 per keyword that is a single
\* CJK character found in the content as it is
ClaimedBoost(keywords, content) ==
    IF keywords = <<>> THEN 0
    ELSE LET kw == Head(keywords)
             found == Contains(Lower(content), Lower(kw))
         IN  (IF found THEN 3 ELSE 0)
             + (IF found /\ IsDigit(kw) THEN 5 ELSE 0)
             + (IF Len(kw) = 1 /\ kw[1] \in CjkChars /\ Contains(content, kw)
                THEN 2 ELSE 0)
             + ClaimedBoost(Tail(keywords), content)

\* C17: every pair search_chunks returns carries the score 1/(1+d) plus 0.3 for
\* each extracted keyword found in the content ignoring case, plus 0.5 for each
\* such keyword that is numeric, plus 0.2 for each keyword that is a single CJK
\* character found in the content.
C17_VectorScoreFormula ==
    Answered("search_chunks") =>
        \A j \in 1..Len(response.result) :
            LET id == response.result[j][1]
            IN  response.result[j][2] =
                    Plus(Frac(10, 10 + distance[id]),
                         Frac(ClaimedBoost(extract_keywords(request.query),
                                           chunks[id].content), 10))

\* X holds the digit keyword, Y does not, Y is closer than X by less than 0.3
DigitMatchBeatsCloser(kw, X, Y) ==
    /\ Contains(Lower(chunks[X].content), Lower(kw))
    /\ ~Contains(Lower(chunks[Y].content), Lower(kw))
    /\ distance[Y] < distance[X]
    /\ distance[X] - distance[Y] < 3

\* C18: when the query's only keyword is a digit string, a chunk X of the
\* candidate rows that contains it comes before every chunk Y of the candidate
\* rows that lacks it and is closer by less than 0.3: if Y is returned, X is
\* returned at an earlier position.
C18_DigitBoostDominates ==
    (/\ Answered("search_chunks")
     /\ Len(extract_keywords(request.query)) = 1
     /\ IsDigit(extract_keywords(request.query)[1])) =>
        \A jx, jy \in 1..Len(response.vector) :
            LET X == response.vector[jx]
                Y == response.vector[jy]
            IN  DigitMatchBeatsCloser(extract_keywords(request.query)[1], X, Y) =>
                    \A py \in PositionsOf(Y) : \E px \in PositionsOf(X) : px < py

\* C18 witness: the digit-string query returned X before a closer Y without it
C18_Witness ==
    /\ Answered("search_chunks")
    /\ extract_keywords(request.query) = <<request.query>>
    /\ IsDigit(request.query)
    /\ Len(response.result) = 2
    /\ DigitMatchBeatsCloser(request.query, response.result[1][1],
                             response.result[2][1])

\* ------------------------------------------------------- chunker claims
ChunkReturned == chunker.at = "returned"

\* C19: chunk(text) never emits an empty chunk: for every text, the empty and
\* the whitespace-only ones included, every chunk returned is non-empty after
\* trimming, and the empty text returns no chunk
C19_NoEmptyChunk ==
    ChunkReturned =>
        /\ \A j \in 1..Len(chunker.chunks) : Strip(chunker.chunks[j]) # <<>>
        /\ chunker.text = <<>> => chunker.chunks = <<>>

\* C20: a non-empty text of at most chunk_size tokens after preprocessing,
\* exactly chunk_size included, returns one chunk: the whole preprocessed text
C20_ShortTextOneChunk ==
    ( /\ ChunkReturned
      /\ chunker.text # <<>>
      /\ Len(Encode(preprocess_text(chunker.text))) <= chunker.chunk_size )
    => chunker.chunks = <<preprocess_text(chunker.text)>>

\* C20 witness: a text of exactly chunk_size tokens went through the loop and
\* came back as one chunk
C20_Witness ==
    /\ ChunkReturned
    /\ Len(chunker.encoded_tokens) = chunker.chunk_size
    /\ Len(chunker.windows) = 1
    /\ Len(chunker.text) > Len(chunker.encoded_tokens)
    /\ chunker.chunks = <<preprocess_text(chunker.text)>>

\* the windows the loop has cut, as [start_i, end_i)
Windows == chunker.windows

TokenCount == Len(chunker.encoded_tokens)

OverlapConfigured == 0 <= chunker.chunk_overlap /\ chunker.chunk_overlap < chunker.chunk_size

\* C22 as stated: with 0 <= chunk_overlap < chunk_size, each next window starts
\* chunk_overlap tokens before the end of the window before it, whatever end
\* refinement chose
C22_OverlapIsChunkOverlap ==
    OverlapConfigured =>
        \A j \in 1..(Len(Windows) - 1) :
            Windows[j + 1][1] = Windows[j][2] - chunker.chunk_overlap

\* C22 amended: the next window starts chunk_overlap tokens before the end of
\* the window before it when that window is longer than chunk_overlap tokens,
\* and one token after that window's start otherwise
C22_OverlapUnlessWindowTooShort ==
    OverlapConfigured =>
        \A j \in 1..(Len(Windows) - 1) :
            Windows[j + 1][1] =
                IF Windows[j][2] - Windows[j][1] > chunker.chunk_overlap
                THEN Windows[j][2] - chunker.chunk_overlap
                ELSE Windows[j][1] + 1

\* C22 witness: a window that refinement shortened is followed by a window
\* starting chunk_overlap > 0 tokens before its end
C22_Witness ==
    /\ ChunkReturned
    /\ OverlapConfigured
    /\ chunker.chunk_overlap > 0
    /\ \E j \in 1..(Len(Windows) - 1) :
          /\ Windows[j][2] - Windows[j][1] < chunker.chunk_size
          /\ Windows[j + 1][1] = Windows[j][2] - chunker.chunk_overlap

\* C23: chunk terminates for every text and configuration, chunk_overlap >=
\* chunk_size included: every iteration of the loop that is followed by
\* another starts it further on, and the call returns
C23_Terminates ==
    /\ [][(chunker.at = "loop" /\ chunker'.at = "loop") => chunker'.i > chunker.i]_vars
    /\ <>ChunkReturned

\* C23 witness: a chunker whose overlap is not below its chunk size returned
\* after several windows
C23_Witness ==
    /\ ChunkReturned
    /\ chunker.chunk_overlap >= chunker.chunk_size
    /\ Len(Windows) >= 3

\* the token indexes (0-based) some window covers
Covered == {t \in 0..(TokenCount - 1) :
               \E j \in 1..Len(Windows) : Windows[j][1] <= t /\ t < Windows[j][2]}

\* C30: chunking a text of more than chunk_size tokens skips no token: every
\* index lies in a window, the first window starts at 0, the last ends at the
\* end of the sequence, and no window is empty
C30_NoUnitSkipped ==
    (ChunkReturned /\ TokenCount > chunker.chunk_size) =>
        /\ Covered = 0..(TokenCount - 1)
        /\ Windows # <<>>
        /\ Windows[1][1] = 0
        /\ Windows[Len(Windows)][2] = TokenCount
        /\ \A j \in 1..Len(Windows) : Windows[j][1] < Windows[j][2]

\* C30 witness: a text cut into several windows, one of them shortened by
\* refinement, with every token covered
C30_Witness ==
    /\ ChunkReturned
    /\ TokenCount > chunker.chunk_size
    /\ Len(Windows) >= 2
    /\ Windows[1][2] - Windows[1][1] < chunker.chunk_size
    /\ Covered = 0..(TokenCount - 1)

\* --------------------------------------------------- refinement claims
SplitWindow == Min(100, Len(request.text) \div 4)

\* the offsets _find_best_split_point looks at
SplitCandidates ==
    {i \in 0..(Len(request.text) - 1) :
        /\ i >= request.target_pos - SplitWindow
        /\ i < request.target_pos + SplitWindow}

SplitDistance(i) == Abs(i - request.target_pos)

\* boundary weight times (1 - distance / search_window), times search_window
ClaimedSplitScore(i) == BoundaryScore(request.text, i) * (SplitWindow - SplitDistance(i))

SplitScoring == {i \in SplitCandidates : ClaimedSplitScore(i) > 0}

\* the candidates no other candidate outscores
SplitHighest ==
    {i \in SplitScoring : \A j \in SplitScoring : ClaimedSplitScore(j) <= ClaimedSplitScore(i)}

\* the offset returned is the cut after one of the highest-scoring candidates
SplitPicksHighest ==
    SplitScoring # {} =>
        /\ response.status = "ok"
        /\ \E i \in SplitHighest : response.result = i + 1

\* among equal highest scores the candidate nearest to the target is taken
SplitTieNearest ==
    SplitScoring # {} =>
        /\ response.status = "ok"
        /\ \E i \in SplitHighest :
              /\ response.result = i + 1
              /\ \A j \in SplitHighest : SplitDistance(i) <= SplitDistance(j)

\* with no candidate scoring above 0 the target comes back unchanged
SplitKeepsTarget ==
    SplitScoring = {} =>
        /\ response.status = "ok"
        /\ response.result = request.target_pos

\* C27: boundary refinement returns the highest-scoring candidate offset, the
\* score being the boundary weight times (1 - distance/search_window); of two
\* candidates with equal scores the one nearer to the target; and the target
\* itself when no candidate scores above 0
C27_BestSplitPoint ==
    (request.op = "find_best_split_point" /\ response # NoResponse) =>
        /\ SplitPicksHighest
        /\ SplitTieNearest
        /\ SplitKeepsTarget

\* ------------------------------------------------------ keyword claims
KeywordsReturned == request.op = "extract_keywords" /\ response.status = "ok"

Keywords == response.result

\* the query as extract_keywords sees it
Cleaned == clean_query(request.query)

SeqRange(s) == {s[j] : j \in 1..Len(s)}

DigitRuns == SeqRange(Runs(Cleaned, DigitChars))

CjkRuns == SeqRange(Runs(Cleaned, CjkChars))

Words == SeqRange(Runs(Cleaned, Chars \ SpaceChars))

\* C24: every maximal run of digits of the cleaned query is a keyword, with
\* or without CJK characters in the query
C24_DigitRunsAreKeywords ==
    KeywordsReturned => \A run \in DigitRuns : run \in SeqRange(Keywords)

Protected(word) == Lower(word) \in ImportantTerms

\* what the claim lets be a keyword
ClaimedKeyword(word) ==
    \/ word \in DigitRuns
    \/ word \in CjkRuns /\ Len(word) >= 2
    \/ /\ word \in Words
       /\ \/ Protected(word)
          \/ Lower(word) \notin StopWords /\ Len(word) >= 2

\* C25: every keyword is a maximal digit run, a maximal run of two or more
\* CJK characters, or a whitespace-delimited word that is protected or is
\* neither a stop word nor shorter than 2 characters; an unprotected single
\* CJK character is never a keyword; no keyword occurs twice
C25_KeywordsAreOfTheThreeKinds ==
    KeywordsReturned =>
        /\ \A j \in 1..Len(Keywords) : ClaimedKeyword(Keywords[j])
        /\ \A j \in 1..Len(Keywords) :
              (Len(Keywords[j]) = 1 /\ Keywords[j][1] \in CjkChars)
                  => Protected(Keywords[j])
        /\ \A j, l \in 1..Len(Keywords) : j # l => Keywords[j] # Keywords[l]

\* ----------------------------------------------------- embedder claims
Embedded == request.op = "embed" /\ response # NoResponse

WrongDimension ==
    /\ request.reply.kind = "ok"
    /\ request.reply.data
    /\ request.reply.length # request.vector_dim

\* C26: a vector whose length differs from the declared dimension makes embed
\* raise ValueError 'Expected embedding dimension <declared>, got <actual>',
\* never return; HTTP and network failures are raised as RuntimeError
C26_DimensionMismatchIsValueError ==
    Embedded =>
        /\ WrongDimension =>
              /\ response.status = "raised"
              /\ response.error = "ValueError"
              /\ response.expected = request.vector_dim
              /\ response.got = request.reply.length
        /\ request.reply.kind # "ok" =>
              /\ response.status = "raised"
              /\ response.error = "RuntimeError"
        /\ response.status = "ok" => response.result = request.vector_dim

\* ----------------------------------------------------- tie-break claims
\* both ids are in the ranking and the second precedes the first
Reversed(ranking, first, second) ==
    /\ RankIn(ranking, first) > 0
    /\ RankIn(ranking, second) > 0
    /\ RankIn(ranking, second) < RankIn(ranking, first)

\* results j and l, j before l, have equal scores
Tied(j, l) ==
    /\ j < l
    /\ ~Less(response.result[j][2], response.result[l][2])
    /\ ~Less(response.result[l][2], response.result[j][2])

\* no two results with equal scores are in the reverse of the order in which
\* the ranking has them
TiesKeep(ranking) ==
    \A j, l \in 1..Len(response.result) :
        Tied(j, l) => ~Reversed(ranking, response.result[j][1], response.result[l][1])

\* C28: in search_vector, search_text and search_hybrid two results with
\* equal final scores keep the order in which the underlying index returned
\* them (ascending distance, ascending lexical rank)
C28_TiesKeepIndexOrder ==
    /\ Answered("search_chunks") => TiesKeep(response.vector)
    /\ Answered("search_chunks_fts") => TiesKeep(response.fts)
    /\ Answered("search_chunks_hybrid") =>
          TiesKeep(response.vector) /\ TiesKeep(response.fts)

\* ------------------------------------------------- claims: co-existence
\* no operation of the caller is between its start and its return
AtRest == \A t \in Tasks : pc[t] = "idle"

\* every index entry holds the content of the row with its id
IndexMatchesRows ==
    \A id \in DOMAIN chunks \cap DOMAIN chunks_fts :
        chunks_fts[id] = chunks[id].content

\* C29: while no embedder call has failed and the one caller awaits each
\* operation before the next, after every sequence of create, update (of an
\* existing or a non-existing id), delete, delete_by_document_id, delete_all
\* and create_chunks_for_document the rows, the embeddings and the index
\* entries have the same ids, and each index entry has its row's content.
C29_ArtifactsCoExist ==
    (failures = 0 /\ AtRest) => (CoExistent(Tables) /\ IndexMatchesRows)

\* an update of an id without a row has returned while another chunk is
\* stored together with its index entry
C29_Witness ==
    /\ failures = 0
    /\ AtRest
    /\ last.op = "update"
    /\ last.id # NoId
    /\ last.id \notin DOMAIN last.before.chunks
    /\ \E id \in DOMAIN chunks \cap DOMAIN chunks_fts :
           chunks_fts[id] = chunks[id].content

====
